---- MODULE Spec2Model ----
(***************************************************************************)
(* The embedded document store of src/exercises/exercise-15/database.ts:   *)
(* an append-only log of marker-prefixed JSON lines, a recursive query     *)
(* matcher, and the sort / projection shaping of find.                     *)
(***************************************************************************)
EXTENDS Integers, Sequences, FiniteSets, TLC

VARIABLES file, call, result, failed, inserted, pending

vars == <<file, call, result, failed, inserted, pending>>

(* Bounds of the model. *)
MaxRows == 2
MaxCalls == 2

Range(s) == {s[i] : i \in 1..Len(s)}

(***************************************************************************)
(* JavaScript values.  A value is tagged with its kind; a string is the    *)
(* sequence of its characters.                                             *)
(***************************************************************************)
Str(s) == [t |-> "string", v |-> s]
Num(n) == [t |-> "number", v |-> n]
NaN == [t |-> "NaN", v |-> 0]
Null == [t |-> "null", v |-> 0]
Undefined == [t |-> "undefined", v |-> 0]

typeof(x) ==
  CASE x.t = "string" -> "string"
    [] x.t \in {"number", "NaN"} -> "number"
    [] x.t = "null" -> "object"
    [] x.t = "undefined" -> "undefined"

(* record[key]: reading a property the object lacks yields undefined. *)
Get(record, key) == IF key \in DOMAIN record THEN record[key] ELSE Undefined

(* a === b *)
StrictEquals(a, b) == a.t # "NaN" /\ a = b

(* Array.prototype.includes compares with SameValueZero: NaN is found. *)
includes(arr, x) == \E i \in 1..Len(arr) : arr[i] = x

(* a < b on numbers: false when either side is NaN. *)
NumLess(a, b) == a.t = "number" /\ b.t = "number" /\ a.v < b.v

(***************************************************************************)
(* JSON.  The text of an object maps each key to the text of its value: a  *)
(* string is written between quotes, a finite number by its digit, NaN as  *)
(* null, and a key whose value is undefined is left out.                   *)
(***************************************************************************)
Digits == <<"0", "1", "2", "3", "4", "5", "6", "7", "8", "9">>
Quote == "\""

stringifyValue(x) ==
  CASE x.t = "string" -> <<Quote>> \o x.v \o <<Quote>>
    [] x.t = "number" -> <<Digits[x.v + 1]>>
    [] x.t \in {"NaN", "null"} -> <<"n", "u", "l", "l">>

JSONstringify(record) ==
  [k \in {k \in DOMAIN record : record[k].t # "undefined"} |->
     stringifyValue(record[k])]

parseValue(text) ==
  CASE text[1] = Quote -> Str(SubSeq(text, 2, Len(text) - 1))
    [] text[1] = "n" -> Null
    [] OTHER -> Num((CHOOSE d \in 1..Len(Digits) : Digits[d] = text[1]) - 1)

JSONparse(json) == [k \in DOMAIN json |-> parseValue(json[k])]

(* Whether JSON.parse accepts the text, or throws a SyntaxError. *)
parsesValue(text) ==
  /\ Len(text) > 0
  /\ \/ Len(text) >= 2 /\ text[1] = Quote /\ text[Len(text)] = Quote
     \/ text = <<"n", "u", "l", "l">>
     \/ Len(text) = 1 /\ text[1] \in Range(Digits)

parses(json) == \A k \in DOMAIN json : parsesValue(json[k])

(***************************************************************************)
(* String helpers.                                                         *)
(***************************************************************************)
Lower == [c \in {"a", "b", "A", "B", " "} |->
            CASE c = "A" -> "a" [] c = "B" -> "b" [] OTHER -> c]

toLowerCase(s) == [i \in 1..Len(s) |-> Lower[s[i]]]

(* value.split(/\s+/): the pieces between maximal runs of white space; a   *)
(* string that starts or ends with white space yields an empty piece.      *)
RECURSIVE splitFrom(_, _, _, _)
splitFrom(s, i, cur, inRun) ==
  IF i > Len(s) THEN <<cur>>
  ELSE IF s[i] = " "
       THEN IF inRun THEN splitFrom(s, i + 1, cur, TRUE)
            ELSE <<cur>> \o splitFrom(s, i + 1, <<>>, TRUE)
       ELSE splitFrom(s, i + 1, Append(cur, s[i]), FALSE)

split(s) == splitFrom(s, 1, <<>>, FALSE)

(***************************************************************************)
(* Array helpers of database.ts.  An element is an object: the row it was  *)
(* parsed from is its identity (ref), data its content.  Set membership is *)
(* by identity, as in a JavaScript Set of objects.                         *)
(***************************************************************************)
SameObject(a, b) == a.ref = b.ref

has(arr, e) == \E i \in 1..Len(arr) : SameObject(arr[i], e)

(* A variant that forgets the filter. *)
intersect2Unfiltered(a, b) == b

intersect2(a, b) == SelectSeq(b, LAMBDA e : has(a, e))

RECURSIVE reduceIntersect(_, _)
reduceIntersect(p, rest) ==
  IF rest = <<>> THEN p
  ELSE reduceIntersect(intersect2(p, Head(rest)), Tail(rest))

(* A variant that filters the first list by the later ones. *)
intersectFromFirst(arrs) ==
  IF Len(arrs) = 0 THEN <<>>
  ELSE SelectSeq(arrs[1], LAMBDA e : \A k \in 2..Len(arrs) : has(arrs[k], e))

intersect(arrs) ==
  IF Len(arrs) = 0 THEN <<>>
  ELSE reduceIntersect(Head(arrs), Tail(arrs))

RECURSIVE concatAll(_)
concatAll(arrs) ==
  IF arrs = <<>> THEN <<>> ELSE Head(arrs) \o concatAll(Tail(arrs))

(* Array.from(new Set(xs)): first occurrences, in order. *)
RECURSIVE fromSet(_, _)
fromSet(xs, seen) ==
  IF xs = <<>> THEN seen
  ELSE fromSet(Tail(xs), IF has(seen, Head(xs)) THEN seen
                         ELSE Append(seen, Head(xs)))

union(arrs) == fromSet(concatAll(arrs), <<>>)

(***************************************************************************)
(* Queries.  kind tells which reserved key the query object holds; a field *)
(* query maps field names to operator objects, an operator object maps     *)
(* operator names to operands.                                             *)
(***************************************************************************)
NoFields == [k \in {} |-> 0]

TextQuery(s) == [kind |-> "$text", text |-> s, subs |-> <<>>, fields |-> NoFields]
AndQuery(qs) == [kind |-> "$and", text |-> <<>>, subs |-> qs, fields |-> NoFields]
OrQuery(qs) == [kind |-> "$or", text |-> <<>>, subs |-> qs, fields |-> NoFields]
FieldQuery(f) == [kind |-> "fields", text |-> <<>>, subs |-> <<>>, fields |-> f]

fullTextSearchFieldNames == <<"name">>

(* A variant whose $lt also accepts the boundary value. *)
matchesOperatorInclusive(queryObject, value) ==
  IF "$in" \in DOMAIN queryObject THEN includes(queryObject["$in"], value)
  ELSE IF "$eq" \in DOMAIN queryObject
       THEN StrictEquals(queryObject["$eq"], value)
  ELSE IF typeof(value) = "number" /\ "$lt" \in DOMAIN queryObject
       THEN ~NumLess(queryObject["$lt"], value)
  ELSE IF typeof(value) = "number" /\ "$gt" \in DOMAIN queryObject
       THEN NumLess(queryObject["$gt"], value)
  ELSE FALSE

(* The body of keys.every(...) in _find, for one key. *)
matchesOperator(queryObject, value) ==
  IF "$in" \in DOMAIN queryObject THEN includes(queryObject["$in"], value)
  ELSE IF "$eq" \in DOMAIN queryObject
       THEN StrictEquals(queryObject["$eq"], value)
  ELSE IF typeof(value) = "number" /\ "$lt" \in DOMAIN queryObject
       THEN NumLess(value, queryObject["$lt"])
  ELSE IF typeof(value) = "number" /\ "$gt" \in DOMAIN queryObject
       THEN NumLess(queryObject["$gt"], value)
  ELSE FALSE

(* A variant that looks for the text anywhere in the string. *)
matchesTextSubstring(record, text) ==
  \E i \in 1..Len(fullTextSearchFieldNames) :
    LET value == Get(record, fullTextSearchFieldNames[i])
    IN  /\ typeof(value) = "string"
        /\ \E from \in 1..(Len(value.v) + 1), to \in 0..Len(value.v) :
             toLowerCase(SubSeq(value.v, from, to)) = toLowerCase(text)

matchesText(record, text) ==
  \E i \in 1..Len(fullTextSearchFieldNames) :
    LET value == Get(record, fullTextSearchFieldNames[i])
    IN  /\ typeof(value) = "string"
        /\ LET words == [j \in 1..Len(split(value.v)) |->
                           toLowerCase(split(value.v)[j])]
           IN  \E j \in 1..Len(words) : words[j] = toLowerCase(text)

RECURSIVE _find(_, _)
_find(records, query) ==
  CASE query.kind = "$text" ->
         SelectSeq(records, LAMBDA o : matchesText(o.data, query.text))
    [] query.kind = "$and" ->
         intersect([i \in 1..Len(query.subs) |-> _find(records, query.subs[i])])
    [] query.kind = "$or" ->
         union([i \in 1..Len(query.subs) |-> _find(records, query.subs[i])])
    [] OTHER ->
         SelectSeq(records, LAMBDA o :
           \A key \in DOMAIN query.fields :
             matchesOperator(query.fields[key], Get(o.data, key)))

(***************************************************************************)
(* The log file.  A line is a marker character followed by the JSON text   *)
(* of a record; the file is the sequence of its lines.  cut tells where    *)
(* the line ends: "none" for a whole line with its newline; "newline" for  *)
(* a whole line that lacks only the newline; "payload" for a line that     *)
(* ends before the end of its payload (json is the payload it is a proper  *)
(* prefix of); "glued" for such a line with an appended row run on to it.  *)
(* Only the last line of a file can be cut "newline" or "payload".         *)
(***************************************************************************)
Line(marker, json) == [marker |-> marker, json |-> json, cut |-> "none"]

(* _load: contents.trim().split("\n") of an empty file is [""], and        *)
(* JSON.parse("") throws; otherwise one row per line, exists iff the line  *)
(* starts with E, whatever else it may start with.  r.slice(1) takes the   *)
(* first character for the marker: of a line that has none (marker "") it  *)
(* cuts the opening brace, and JSON.parse throws.  It throws as well on a  *)
(* proper prefix of a payload, with or without a row run on to it; trim()  *)
(* makes a missing last newline no difference.                             *)
_load(contents) ==
  IF \/ Len(contents) = 0
     \/ \E i \in 1..Len(contents) :
          \/ contents[i].marker = ""
          \/ ~parses(contents[i].json)
          \/ contents[i].cut \in {"payload", "glued"}
  THEN [failed |-> TRUE, rows |-> <<>>]
  ELSE [failed |-> FALSE,
        rows |-> [i \in 1..Len(contents) |->
                    [exists |-> contents[i].marker = "E",
                     ref |-> i,
                     data |-> JSONparse(contents[i].json)]]]

Object(r) == [ref |-> r.ref, data |-> r.data]

(* A variant that forgets the exists filter. *)
existingUnfiltered(rows) == [i \in 1..Len(rows) |-> Object(rows[i])]

(* rows.filter((r) => r.exists).map((r) => r.data) *)
existing(rows) ==
  LET live == SelectSeq(rows, LAMBDA r : r.exists)
  IN  [i \in 1..Len(live) |-> Object(live[i])]

(***************************************************************************)
(* Sort.  localeCompare orders strings by their letters first (white space *)
(* before letters, case ignored) and, when those agree, lower case before  *)
(* upper case.                                                             *)
(***************************************************************************)
Primary == [c \in {"a", "b", "A", "B", " "} |->
             CASE c = " " -> 0 [] c \in {"a", "A"} -> 1 [] OTHER -> 2]
Tertiary == [c \in {"a", "b", "A", "B", " "} |->
              IF c \in {"A", "B"} THEN 1 ELSE 0]

RECURSIVE lexCompare(_, _, _, _)
lexCompare(a, b, weight, i) ==
  IF i > Len(a) /\ i > Len(b) THEN 0
  ELSE IF i > Len(a) THEN -1
  ELSE IF i > Len(b) THEN 1
  ELSE IF weight[a[i]] < weight[b[i]] THEN -1
  ELSE IF weight[a[i]] > weight[b[i]] THEN 1
  ELSE lexCompare(a, b, weight, i + 1)

localeCompare(a, b) ==
  IF lexCompare(a, b, Primary, 1) # 0 THEN lexCompare(a, b, Primary, 1)
  ELSE lexCompare(a, b, Tertiary, 1)

(* One entry of compares: the comparison of a and b on one sort key. *)
compareKey(a, b, key, order) ==
  LET aValue == Get(a.data, key)
      bValue == Get(b.data, key)
  IN  IF typeof(aValue) = "string" /\ typeof(bValue) = "string"
      THEN localeCompare(aValue.v, bValue.v) * order
      ELSE IF typeof(aValue) = "number" /\ typeof(bValue) = "number"
      THEN (IF NumLess(aValue, bValue) THEN -1 ELSE 1) * order
      ELSE 0

(* compares.find((n) => n !== 0) ?? 0, sort a sequence of <<key, order>>. *)
RECURSIVE compareFrom(_, _, _, _)
compareFrom(a, b, sort, i) ==
  IF i > Len(sort) THEN 0
  ELSE LET c == compareKey(a, b, sort[i][1], sort[i][2])
       IN  IF c # 0 THEN c ELSE compareFrom(a, b, sort, i + 1)

compare(a, b, sort) == compareFrom(a, b, sort, 1)

(***************************************************************************)
(* Array.prototype.sort as the engine runs it on an array shorter than 64  *)
(* elements: one run is counted (and reversed when strictly descending),   *)
(* the remaining elements are placed by binary insertion.                  *)
(***************************************************************************)
RECURSIVE runLengthFrom(_, _, _, _)
runLengthFrom(arr, sort, descending, idx) ==
  IF idx > Len(arr) THEN idx - 1
  ELSE LET order == compare(arr[idx], arr[idx - 1], sort)
       IN  IF (descending /\ order >= 0) \/ (~descending /\ order < 0)
           THEN idx - 1
           ELSE runLengthFrom(arr, sort, descending, idx + 1)

ReverseRange(arr, n) ==
  [i \in 1..Len(arr) |-> IF i <= n THEN arr[n + 1 - i] ELSE arr[i]]

CountAndMakeRun(arr, sort) ==
  LET descending == compare(arr[2], arr[1], sort) < 0
      runLength == runLengthFrom(arr, sort, descending, 3)
  IN  [runLength |-> runLength,
       array |-> IF descending THEN ReverseRange(arr, runLength) ELSE arr]

RECURSIVE searchLeft(_, _, _, _, _)
searchLeft(arr, sort, pivot, left, right) ==
  IF left >= right THEN left
  ELSE LET mid == left + ((right - left) \div 2)
       IN  IF compare(pivot, arr[mid], sort) < 0
           THEN searchLeft(arr, sort, pivot, left, mid)
           ELSE searchLeft(arr, sort, pivot, mid + 1, right)

RECURSIVE BinaryInsertionSort(_, _, _)
BinaryInsertionSort(arr, sort, start) ==
  IF start > Len(arr) THEN arr
  ELSE LET pivot == arr[start]
           left == searchLeft(arr, sort, pivot, 1, start)
           moved == [p \in 1..Len(arr) |->
                       IF p = left THEN pivot
                       ELSE IF p > left /\ p <= start THEN arr[p - 1]
                       ELSE arr[p]]
       IN  BinaryInsertionSort(moved, sort, start + 1)

arraySort(arr, sort) ==
  IF Len(arr) < 2 THEN arr
  ELSE LET run == CountAndMakeRun(arr, sort)
       IN  BinaryInsertionSort(run.array, sort, run.runLength + 1)

(***************************************************************************)
(* Options and find.                                                       *)
(***************************************************************************)
Options(hasSort, sort, hasProjection, projection) ==
  [hasSort |-> hasSort, sort |-> sort,
   hasProjection |-> hasProjection, projection |-> projection]

NoOptions == Options(FALSE, <<>>, FALSE, <<>>)

(* A variant that returns the record whole. *)
projectNothing(o, projection) == o

(* keys.reduce((p, n) => { p[n] = record[n]; return p }, {}) *)
project(o, projection) ==
  [ref |-> o.ref,
   data |-> [n \in Range(projection) |-> Get(o.data, n)]]

find(contents, query, options) ==
  LET loaded == _load(contents)
      existingRecords == existing(loaded.rows)
      matched == _find(existingRecords, query)
      sorted == IF options.hasSort THEN arraySort(matched, options.sort)
                ELSE matched
      shaped == IF options.hasProjection
                THEN [i \in 1..Len(sorted) |->
                        project(sorted[i], options.projection)]
                ELSE sorted
  IN  IF loaded.failed THEN [failed |-> TRUE, value |-> <<>>]
      ELSE [failed |-> FALSE, value |-> shaped]

(***************************************************************************)
(* insert and delete.                                                      *)
(***************************************************************************)
(* appendFile writes the row at the end of the file: after the last       *)
(* newline, or run on to a last line that has none.                        *)
appendFile(contents, row) ==
  IF Len(contents) > 0 /\ contents[Len(contents)].cut \in {"payload", "newline"}
  THEN [contents EXCEPT ![Len(contents)].cut = "glued"]
  ELSE contents \o <<row>>

(* writeFile(filename, data) is three file operations: it opens the file   *)
(* with flag "w", which empties it; it writes the data from the start of   *)
(* the file, over what the file holds by then and leaving what lies beyond *)
(* the data; it closes the file.  Row for row, where the rows written and  *)
(* the rows written over have the same length.                             *)

(* A variant that opens the file without emptying it. *)
openKeeping(contents) == contents

open(contents) == <<>>

write(contents, data) ==
  data \o SubSeq(contents, Len(data) + 1, Len(contents))

writeFile(contents, data) == write(open(contents), data)

(* A variant that writes the wrong marker. *)
insertRowDead(record) == Line("D", JSONstringify(record))

insertRow(record) == Line("E", JSONstringify(record))

insert(contents, record) == appendFile(contents, insertRow(record))

(* A variant that decides every row by the deleted set alone. *)
newRowsResurrecting(rows, deletedRecords) ==
  [i \in 1..Len(rows) |->
     [rows[i] EXCEPT !.exists = ~has(deletedRecords, Object(rows[i]))]]

(* newRows of delete: a live row dies when its record is in the deleted    *)
(* set, a dead row stays dead.                                             *)
newRows(rows, deletedRecords) ==
  [i \in 1..Len(rows) |->
     [rows[i] EXCEPT !.exists =
        IF rows[i].exists THEN ~has(deletedRecords, Object(rows[i]))
        ELSE FALSE]]

(* A variant that writes the live rows only. *)
newContentsCompacting(rows) ==
  LET live == SelectSeq(rows, LAMBDA r : r.exists)
  IN  [i \in 1..Len(live) |-> Line("E", JSONstringify(live[i].data))]

newContents(rows) ==
  [i \in 1..Len(rows) |->
     Line(IF rows[i].exists THEN "E" ELSE "D", JSONstringify(rows[i].data))]

(* What delete hands to writeFile, computed from the contents it loaded. *)
deleteContents(contents, query) ==
  LET rows == _load(contents).rows
      deletedRecords == _find(existing(rows), query)
  IN  newContents(newRows(rows, deletedRecords))

(***************************************************************************)
(* The inputs the operations are called with.                              *)
(***************************************************************************)
Records ==
  { [name |-> Str(<<"a">>), age |-> Num(1)],
    [name |-> Str(<<"b">>), age |-> Num(1)],
    [name |-> Str(<<"a">>), age |-> Num(2)],
    [name |-> Str(<<"a", " ", "B">>)],
    [name |-> Str(<<"b">>), age |-> NaN] }

MatchAll == FieldQuery(NoFields)
AgeLt(n) == FieldQuery([k \in {"age"} |-> [x \in {"$lt"} |-> Num(n)]])
AgeGt(n) == FieldQuery([k \in {"age"} |-> [x \in {"$gt"} |-> Num(n)]])
NameLt(n) == FieldQuery([k \in {"name"} |-> [x \in {"$lt"} |-> Num(n)]])
NameEq(s) == FieldQuery([k \in {"name"} |-> [x \in {"$eq"} |-> Str(s)]])
AgeIn(ns) == FieldQuery([k \in {"age"} |-> [x \in {"$in"} |-> ns]])

CombinedLeaves == {AgeLt(2), AgeGt(1), NameEq(<<"a">>), AgeIn(<<Num(1), Null>>)}

LeafQueries ==
  CombinedLeaves \cup
  {MatchAll, AgeLt(1), AgeGt(0), AgeGt(2), NameLt(2), TextQuery(<<"b">>)}

CombinedQueries ==
  {AndQuery(<<q1, q2>>) : q1, q2 \in CombinedLeaves} \cup
  {OrQuery(<<q1, q2>>) : q1, q2 \in CombinedLeaves}

Queries == LeafQueries \cup CombinedQueries

(* The queries find is given together with sort or projection options. *)
ShapedQueries == {MatchAll, OrQuery(<<AgeGt(1), AgeLt(2)>>)}

DeleteQueries ==
  {MatchAll, AgeLt(2), AgeGt(1), NameEq(<<"a">>), NameLt(2),
   AgeIn(<<Num(1), Null>>),
   AndQuery(<<NameEq(<<"a">>), AgeLt(2)>>),
   OrQuery(<<AgeGt(1), NameEq(<<"a">>)>>)}

SortOptions ==
  { <<<<"age", 1>>>>, <<<<"age", -1>>>>, <<<<"name", 1>>>>, <<<<"name", -1>>>>,
    <<<<"age", 1>>, <<"name", -1>>>> }

Projections == { <<"name">>, <<"age">> }

ShapingOptions ==
  {Options(TRUE, s, FALSE, <<>>) : s \in SortOptions} \cup
  {Options(FALSE, <<>>, TRUE, p) : p \in Projections} \cup
  {Options(TRUE, <<<<"name", 1>>>>, TRUE, <<"age">>)}

NoRecord == NoFields
NoQuery == [kind |-> "none", text |-> <<>>, subs |-> <<>>, fields |-> NoFields]

Call(op, record, query, options) ==
  [op |-> op, record |-> record, query |-> query, options |-> options]

NoPending ==
  [c \in 1..MaxCalls |->
     [active |-> FALSE, op |-> "none", query |-> NoQuery, size |-> 0,
      loaded |-> FALSE, data |-> <<>>, base |-> 0, overlapped |-> FALSE,
      opened |-> FALSE, before |-> <<>>]]

(***************************************************************************)
(* The store used by one caller at a time: every operation runs to its end *)
(* before the next one starts.                                             *)
(***************************************************************************)
Init ==
  /\ file = <<>>
  /\ call = Call("init", NoRecord, NoQuery, NoOptions)
  /\ result = <<>>
  /\ failed = FALSE
  /\ inserted = <<>>
  /\ pending = NoPending

Insert(record) ==
  /\ Len(inserted) < MaxRows
  /\ file' = insert(file, record)
  /\ inserted' = Append(inserted, record)
  /\ call' = Call("insert", record, NoQuery, NoOptions)
  /\ result' = <<>>
  /\ failed' = FALSE
  /\ UNCHANGED pending

Delete(query) ==
  /\ call' = Call("delete", NoRecord, query, NoOptions)
  /\ result' = <<>>
  /\ failed' = _load(file).failed
  /\ file' = IF _load(file).failed THEN file
             ELSE writeFile(file, deleteContents(file, query))
  /\ UNCHANGED <<inserted, pending>>

(* A variant of find that writes the live rows back. *)
FindRewriting(query, options) ==
  /\ call' = Call("find", NoRecord, query, options)
  /\ result' = find(file, query, options).value
  /\ failed' = find(file, query, options).failed
  /\ file' = newContentsCompacting(_load(file).rows)
  /\ UNCHANGED <<inserted, pending>>

Find(query, options) ==
  /\ call' = Call("find", NoRecord, query, options)
  /\ result' = find(file, query, options).value
  /\ failed' = find(file, query, options).failed
  /\ UNCHANGED <<file, inserted, pending>>

Next ==
  \/ \E record \in Records : Insert(record)
  \/ \E query \in DeleteQueries : Delete(query)
  \/ \E query \in Queries : Find(query, NoOptions)
  \/ \E query \in ShapedQueries, options \in ShapingOptions : Find(query, options)

Spec == Init /\ [][Next]_vars

(***************************************************************************)
(* The store used by callers that do not wait for one another.  The file   *)
(* operations are the suspension points.  A find or a delete reads the     *)
(* file with readFile, which asks for the size of the file in one step and *)
(* reads in a later one: as many bytes as that size, or, when the size was *)
(* 0, one piece after another until a read returns nothing.  A delete then *)
(* computes what it will write, opens the file for writing in a later      *)
(* step, which empties it, and writes it in one more.  An insert is a      *)
(* single append.  pending[c] is the call c between its first and its last *)
(* file operation: op and query are the call, size the size it was told,   *)
(* loaded whether its read has ended, data the rows read so far and, once  *)
(* loaded, the rows a delete will write, base the number of inserts        *)
(* completed when its read ended, opened whether it has opened the file    *)
(* for writing, before the markers of the file it emptied, and overlapped  *)
(* whether another delete call has opened or written the file since this   *)
(* delete began.  A new call takes the first free place of pending.  The   *)
(* rows of RaceRecords all have the same length, so sizes count rows.      *)
(***************************************************************************)
fstat(contents) == Len(contents)

read(contents, position, size) ==
  SubSeq(contents, position + 1,
         IF size = 0 \/ Len(contents) < size THEN Len(contents) ELSE size)

LoadStat(c, op, query) ==
  /\ ~pending[c].active
  /\ \A d \in 1..(c - 1) : pending[d].active
  /\ pending' = [pending EXCEPT ![c] =
                   [NoPending[c] EXCEPT !.active = TRUE, !.op = op,
                                        !.query = query,
                                        !.size = fstat(file)]]
  /\ call' = Call("fstat", NoRecord, NoQuery, NoOptions)
  /\ result' = <<>>
  /\ failed' = FALSE
  /\ UNCHANGED <<file, inserted>>

(* A read that is not the last one of its readFile. *)
LoadReadMore(c) ==
  /\ pending[c].active /\ ~pending[c].loaded
  /\ pending[c].size = 0
  /\ read(file, Len(pending[c].data), 0) # <<>>
  /\ pending' = [pending EXCEPT ![c].data = @ \o read(file, Len(@), 0)]
  /\ call' = Call("read", NoRecord, NoQuery, NoOptions)
  /\ result' = <<>>
  /\ failed' = FALSE
  /\ UNCHANGED <<file, inserted>>

(* The last read of a readFile, and what the call does with the contents   *)
(* before its next file operation: a find returns, a delete computes the   *)
(* rows it will write, or the call fails in _load.                         *)
LoadRead(c) ==
  LET p == pending[c]
      contents == p.data \o read(file, Len(p.data), p.size)
  IN  /\ p.active /\ ~p.loaded
      /\ p.size = 0 => read(file, Len(p.data), 0) = <<>>
      /\ IF p.op = "find"
         THEN /\ pending' = [pending EXCEPT ![c] = NoPending[c]]
              /\ call' = Call("find", NoRecord, p.query, NoOptions)
              /\ result' = find(contents, p.query, NoOptions).value
              /\ failed' = find(contents, p.query, NoOptions).failed
         ELSE /\ pending' =
                   IF _load(contents).failed
                   THEN [pending EXCEPT ![c] = NoPending[c]]
                   ELSE [pending EXCEPT
                           ![c].loaded = TRUE,
                           ![c].data = deleteContents(contents, p.query),
                           ![c].base = Len(inserted)]
              /\ call' = Call(IF _load(contents).failed THEN "delete" ELSE "load",
                              NoRecord, p.query, NoOptions)
              /\ result' = <<>>
              /\ failed' = _load(contents).failed
      /\ UNCHANGED <<file, inserted>>

Overlap(c, own) ==
  [d \in 1..MaxCalls |->
     IF d = c THEN own
     ELSE [pending[d] EXCEPT !.overlapped = pending[d].op = "delete"]]

DeleteRewriteOpen(c) ==
  /\ pending[c].loaded /\ ~pending[c].opened
  /\ file' = open(file)
  /\ pending' = Overlap(c, [pending[c] EXCEPT
                              !.opened = TRUE,
                              !.before = [i \in 1..Len(file) |-> file[i].marker]])
  /\ call' = Call("open", NoRecord, NoQuery, NoOptions)
  /\ result' = <<>>
  /\ failed' = FALSE
  /\ UNCHANGED inserted

DeleteRewrite(c) ==
  /\ pending[c].opened
  /\ file' = write(file, pending[c].data)
  /\ pending' = Overlap(c, NoPending[c])
  /\ call' = Call("delete", NoRecord, NoQuery, NoOptions)
  /\ result' = <<>>
  /\ failed' = FALSE
  /\ UNCHANGED inserted

RaceQueries == {MatchAll, NameEq(<<"a">>), AgeGt(1)}

RaceRecords ==
  { [name |-> Str(<<"a">>), age |-> Num(1)],
    [name |-> Str(<<"b">>), age |-> Num(2)] }

NextRace ==
  \/ \E record \in RaceRecords : Insert(record)
  \/ \E c \in 1..MaxCalls, query \in RaceQueries : LoadStat(c, "delete", query)
  \/ \E c \in 1..MaxCalls : LoadStat(c, "find", MatchAll)
  \/ \E c \in 1..MaxCalls : LoadReadMore(c)
  \/ \E c \in 1..MaxCalls : LoadRead(c)
  \/ \E c \in 1..MaxCalls : DeleteRewriteOpen(c)
  \/ \E c \in 1..MaxCalls : DeleteRewrite(c)

SpecRace == Init /\ [][NextRace]_vars

(***************************************************************************)
(* The matcher on its own: the same store, called with records that carry  *)
(* text, and with $text queries, nested combinators and empty combinators. *)
(***************************************************************************)
MatchRecords ==
  { [name |-> Str(<<"a", " ", "B">>)],
    [name |-> Str(<<"a", "b">>), bio |-> Str(<<"b">>)],
    [name |-> Str(<<" ", "b">>)],
    [name |-> Str(<<"a">>), age |-> Num(1)],
    [name |-> Str(<<"b">>), age |-> Num(2)] }

TextQueries ==
  {TextQuery(<<"a">>), TextQuery(<<"b">>), TextQuery(<<"B">>),
   TextQuery(<<"a", "b">>), TextQuery(<<>>)}

EitherAge == OrQuery(<<AgeGt(1), AgeLt(2)>>)

NestedQueries ==
  {AndQuery(<<EitherAge, MatchAll>>), AndQuery(<<MatchAll, EitherAge>>),
   AndQuery(<<EitherAge, MatchAll, EitherAge>>),
   AndQuery(<<EitherAge, OrQuery(<<TextQuery(<<"b">>), AgeLt(2)>>), MatchAll>>),
   AndQuery(<<EitherAge>>)}

EmptyQueries == {AndQuery(<<>>), OrQuery(<<>>)}

MatchQueries == {MatchAll} \cup TextQueries \cup NestedQueries \cup EmptyQueries

MatchDeleteQueries ==
  EmptyQueries \cup {MatchAll, TextQuery(<<"b">>), AgeGt(1)}

NextMatch ==
  \/ \E record \in MatchRecords : Insert(record)
  \/ \E query \in MatchDeleteQueries : Delete(query)
  \/ \E query \in MatchQueries : Find(query, NoOptions)

SpecMatch == Init /\ [][NextMatch]_vars

(***************************************************************************)
(* The store opened on a file that something else wrote: well formed, or   *)
(* with a line whose marker is neither E nor D, that has no marker, or     *)
(* whose payload is not JSON.                                              *)
(***************************************************************************)
GoodJson == JSONstringify([name |-> Str(<<"a">>), age |-> Num(1)])
OtherJson == JSONstringify([name |-> Str(<<"b">>), age |-> Num(2)])
BadJson == [name |-> <<Quote, "a">>]

LogFiles ==
  { <<Line("E", GoodJson), Line("D", OtherJson)>>,
    <<Line("X", GoodJson)>>,
    <<Line("E", OtherJson), Line("X", GoodJson)>>,
    <<Line("", GoodJson)>>,
    <<Line("E", BadJson)>>,
    <<Line("D", BadJson), Line("E", GoodJson)>> }

InitLog ==
  /\ file \in LogFiles
  /\ call = Call("init", NoRecord, NoQuery, NoOptions)
  /\ result = <<>>
  /\ failed = FALSE
  /\ inserted = <<>>
  /\ pending = NoPending

NextLog ==
  \/ \E record \in RaceRecords : Insert(record)
  \/ \E query \in RaceQueries : Delete(query)
  \/ \E query \in RaceQueries : Find(query, NoOptions)

SpecLog == InitLog /\ [][NextLog]_vars

(***************************************************************************)
(* The rewrite of delete, interrupted, with one caller at a time.  The     *)
(* file is opened, which empties it, and the write stops after some of     *)
(* the bytes of the data but not all: after some whole rows, or inside the *)
(* next row, or before the newline that ends it.                           *)
(***************************************************************************)
Interrupted(data) ==
  {SubSeq(data, 1, written) : written \in 0..(Len(data) - 1)}
    \cup {Append(SubSeq(data, 1, written),
                 [data[written + 1] EXCEPT !.cut = cut]) :
            written \in 0..(Len(data) - 1), cut \in {"payload", "newline"}}

DeleteRewriteInterrupted(query) ==
  /\ ~_load(file).failed
  /\ file' \in Interrupted(deleteContents(file, query))
  /\ call' = Call("interrupted", NoRecord, query, NoOptions)
  /\ result' = <<>>
  /\ failed' = TRUE
  /\ UNCHANGED <<inserted, pending>>

NextCrash ==
  \/ \E record \in RaceRecords : Insert(record)
  \/ \E query \in RaceQueries : Delete(query)
  \/ \E query \in RaceQueries : DeleteRewriteInterrupted(query)
  \/ \E query \in RaceQueries : Find(query, NoOptions)

SpecCrash == Init /\ [][NextCrash]_vars

(***************************************************************************)
(* Vocabulary of the properties.                                           *)
(***************************************************************************)
Refs(objects) == {objects[i].ref : i \in 1..Len(objects)}

(* How many elements of a result hold exactly the record r. *)
RECURSIVE CountData(_, _)
CountData(objects, r) ==
  IF objects = <<>> THEN 0
  ELSE (IF Head(objects).data = r THEN 1 ELSE 0) + CountData(Tail(objects), r)

(* How many live lines of a file carry the serialized record r. *)
RECURSIVE CountLive(_, _)
CountLive(contents, r) ==
  IF contents = <<>> THEN 0
  ELSE (IF Head(contents) = Line("E", JSONstringify(r)) THEN 1 ELSE 0)
       + CountLive(Tail(contents), r)

(* A record JSON carries unchanged: strings and finite numbers only. *)
JSONSafe(r) == \A k \in DOMAIN r : r[k].t \in {"string", "number"}

(* Whether a record satisfies a query, read off the query's meaning: every *)
(* sub-query of a non-empty $and, some sub-query of an $or, every key of a *)
(* field query.                                                            *)
RECURSIVE Satisfies(_, _)
Satisfies(record, query) ==
  CASE query.kind = "$text" -> matchesText(record, query.text)
    [] query.kind = "$and" ->
         /\ Len(query.subs) > 0
         /\ \A i \in 1..Len(query.subs) : Satisfies(record, query.subs[i])
    [] query.kind = "$or" ->
         \E i \in 1..Len(query.subs) : Satisfies(record, query.subs[i])
    [] OTHER ->
         \A key \in DOMAIN query.fields :
           LET queryObject == query.fields[key]
               value == Get(record, key)
           IN  \/ "$in" \in DOMAIN queryObject /\ includes(queryObject["$in"], value)
               \/ "$eq" \in DOMAIN queryObject /\ queryObject["$eq"] = value
               \/ /\ "$lt" \in DOMAIN queryObject
                  /\ value.t = "number" /\ value.v < queryObject["$lt"].v
               \/ /\ "$gt" \in DOMAIN queryObject
                  /\ value.t = "number" /\ value.v > queryObject["$gt"].v

IsFindAll(c) == c.op = "find" /\ c.query = MatchAll /\ c.options = NoOptions

(***************************************************************************)
(* C1  Tombstone exclusion.  A row whose marker is D stays in the file, at *)
(* its place, with marker D and the same payload, through every later      *)
(* operation; and no find that returns hands out the record of a row whose *)
(* marker is D, so a row delete has tombstoned is never returned again.    *)
(***************************************************************************)
TombstoneExclusion ==
  [][/\ \A i \in 1..Len(file) :
          file[i].marker = "D" => i <= Len(file') /\ file'[i] = file[i]
     /\ (call'.op = "find" /\ ~failed') =>
          \A i \in Refs(result') : file'[i].marker = "E"]_vars

(* A find({}) that returned some record while the file holds a dead row. *)
TombstoneWitness ==
  /\ IsFindAll(call) /\ ~failed
  /\ Len(result) = 1
  /\ \E i \in 1..Len(file) : file[i].marker = "D" /\ i \notin Refs(result)

(***************************************************************************)
(* C2  Round trip, as claimed: a find({}) that directly follows insert(r)  *)
(* returns r exactly once.                                                 *)
(***************************************************************************)
RoundTripExactlyOnce ==
  [][(call.op = "insert" /\ IsFindAll(call')) =>
       ~failed' /\ CountData(result', call.record) = 1]_vars

(***************************************************************************)
(* C2 amended.  For a record r of strings and finite numbers, a find({})   *)
(* that directly follows insert(r) returns, as its last element, the       *)
(* record of the appended row, equal to r field by field; r occurs in the  *)
(* result once for the new row and once more for every live row that       *)
(* already carried r.                                                      *)
(***************************************************************************)
RoundTripAppended ==
  [][(call.op = "insert" /\ IsFindAll(call') /\ JSONSafe(call.record)) =>
       /\ ~failed'
       /\ Len(result') > 0
       /\ result'[Len(result')] = [ref |-> Len(file), data |-> call.record]
       /\ CountData(result', call.record) =
            1 + CountLive(SubSeq(file, 1, Len(file) - 1), call.record)]_vars

(* A find({}) after the second insert of one record: it is returned twice. *)
RoundTripWitness ==
  /\ IsFindAll(call) /\ ~failed
  /\ Len(result) = 2
  /\ result[1].data = result[2].data
  /\ Len(inserted) = 2 /\ inserted[2] = result[2].data

(***************************************************************************)
(* C3  delete(q) marks dead exactly the rows that were live and whose      *)
(* record satisfies q; the other live rows stay live, dead rows stay dead, *)
(* and the file keeps its rows, their order and their payloads.  A delete  *)
(* that fails leaves the file as it was.                                   *)
(***************************************************************************)
DeleteMarksExactly ==
  [][call'.op = "delete" =>
       IF failed' THEN file' = file
       ELSE /\ Len(file') = Len(file)
            /\ \A i \in 1..Len(file) :
                 /\ file'[i].json = file[i].json
                 /\ file'[i].marker =
                      IF file[i].marker = "E"
                         /\ ~Satisfies(JSONparse(file[i].json), call'.query)
                      THEN "E" ELSE "D"]_vars

(* A delete that killed one of two live rows and kept the other. *)
DeleteWitness ==
  /\ call.op = "delete" /\ ~failed
  /\ Len(file) = 2
  /\ file[1].marker = "D" /\ file[2].marker = "E"
  /\ Satisfies(JSONparse(file[1].json), call.query)
  /\ ~Satisfies(JSONparse(file[2].json), call.query)

(***************************************************************************)
(* C4  Log order.  The file holds one row per completed insert, in insert  *)
(* order; the payload of row i is the serialized i-th inserted record and  *)
(* its marker is E or D.                                                   *)
(***************************************************************************)
LogOrder ==
  /\ Len(file) = Len(inserted)
  /\ \A i \in 1..Len(file) :
       /\ file[i].marker \in {"E", "D"}
       /\ file[i].json = JSONstringify(inserted[i])

(* After a delete: two rows with different payloads, the first one dead. *)
LogOrderWitness ==
  /\ call.op = "delete" /\ ~failed
  /\ Len(file) = 2
  /\ file[1].marker = "D" /\ file[2].marker = "E"
  /\ file[1].json # file[2].json

(***************************************************************************)
(* C5  Lost insert.  The rewrite of a delete begins by emptying the file,  *)
(* whatever was appended since that delete read it, and then writes what   *)
(* the delete computed from its read, which holds no row appended since.   *)
(* When an insert has completed since the read and the file is still empty *)
(* at the write, the file becomes exactly what the delete computed: it     *)
(* then holds fewer rows than there are completed inserts, so the row of a *)
(* completed insert is in the file neither live nor dead.                  *)
(***************************************************************************)
Opens(c) == ~pending[c].opened /\ pending'[c].opened

LostInsert ==
  [][\A c \in 1..MaxCalls :
       /\ Opens(c) => file' = <<>>
       /\ (pending[c].opened /\ ~pending'[c].active) =>
            /\ Len(pending[c].data) <= pending[c].base
            /\ SubSeq(file', 1, Len(pending[c].data)) = pending[c].data
            /\ (Len(inserted) > pending[c].base /\ file = <<>>) =>
                 /\ file' = pending[c].data
                 /\ Len(file') < Len(inserted')]_vars

(* The file holds one row although two inserts have completed. *)
LostInsertWitness ==
  /\ call.op = "delete" /\ ~failed
  /\ Len(inserted) = 2 /\ Len(file) = 1
  /\ file[1].json = JSONstringify(inserted[1])

(***************************************************************************)
(* C6  find never writes: a find, given any query and options, returning   *)
(* or failing, leaves the file exactly as it was.                          *)
(***************************************************************************)
FindKeepsFile == [][call'.op = "find" => file' = file]_vars

(* A find with sort and projection that returned two records. *)
FindKeepsFileWitness ==
  /\ call.op = "find" /\ ~failed
  /\ call.options.hasSort /\ call.options.hasProjection
  /\ Len(result) = 2 /\ Len(file) = 2

(***************************************************************************)
(* C7  Set algebra.  A find of {$and: [q1, q2]} returns only records that  *)
(* find(q1) and find(q2) both return; a find of {$or: [q1, q2]} returns    *)
(* exactly the records that find(q1) or find(q2) returns, each once.       *)
(***************************************************************************)
SetAlgebra ==
  (/\ call.op = "find" /\ ~failed /\ call.options = NoOptions
   /\ call.query.kind \in {"$and", "$or"} /\ Len(call.query.subs) = 2) =>
    LET r1 == find(file, call.query.subs[1], NoOptions).value
        r2 == find(file, call.query.subs[2], NoOptions).value
    IN  IF call.query.kind = "$and"
        THEN Range(result) \subseteq (Range(r1) \cap Range(r2))
        ELSE /\ Range(result) = Range(r1) \cup Range(r2)
             /\ Cardinality(Refs(result)) = Len(result)

(* An $and whose first sub-query matches two records and whose second     *)
(* matches one of them.                                                    *)
SetAlgebraWitness ==
  /\ call.op = "find" /\ ~failed /\ call.options = NoOptions
  /\ call.query.kind = "$and" /\ Len(call.query.subs) = 2
  /\ Len(find(file, call.query.subs[1], NoOptions).value) = 2
  /\ Len(find(file, call.query.subs[2], NoOptions).value) = 1
  /\ Len(result) = 1

(***************************************************************************)
(* C8  Sort stability.  In the result of a find with a sort option, two    *)
(* records that hold equal strings or equal numbers under every sort key   *)
(* stand in the order they had before sorting.  (Stated for two records    *)
(* that differ in some other field, whose order a caller can observe.)     *)
(***************************************************************************)
TiedOnEveryKey(a, b, sort) ==
  \A k \in 1..Len(sort) :
    /\ Get(a.data, sort[k][1]) = Get(b.data, sort[k][1])
    /\ Get(a.data, sort[k][1]).t \in {"string", "number"}

Position(objects, o) == CHOOSE i \in 1..Len(objects) : objects[i].ref = o.ref

SortStability ==
  (/\ call.op = "find" /\ ~failed
   /\ call.options.hasSort /\ ~call.options.hasProjection) =>
    LET before == find(file, call.query, NoOptions).value
    IN  \A i, j \in 1..Len(result) :
          (/\ i < j
           /\ result[i].data # result[j].data
           /\ TiedOnEveryKey(result[i], result[j], call.options.sort)) =>
            Position(before, result[i]) < Position(before, result[j])

(***************************************************************************)
(* C9  Projection, as claimed: every record of find(q, {projection:{a:1}}) *)
(* has no field but a, a holds the value of the unprojected record, and a  *)
(* record that lacks a yields a projected record without a.                *)
(***************************************************************************)
Unprojected(c) ==
  find(file, c.query, [c.options EXCEPT !.hasProjection = FALSE]).value

IsProjection(c) ==
  c.op = "find" /\ c.options.hasProjection /\ Len(c.options.projection) = 1

ProjectionOmitsMissing ==
  (IsProjection(call) /\ ~failed) =>
    LET a == call.options.projection[1]
        full == Unprojected(call)
    IN  /\ Len(result) = Len(full)
        /\ \A i \in 1..Len(result) :
             /\ result[i].ref = full[i].ref
             /\ DOMAIN result[i].data \subseteq {a}
             /\ a \in DOMAIN result[i].data <=> a \in DOMAIN full[i].data
             /\ a \in DOMAIN full[i].data =>
                  result[i].data[a] = full[i].data[a]

(***************************************************************************)
(* C9 amended.  Every record of find(q, {projection: {a: 1}}) has exactly  *)
(* the key a; it holds the value of a in the corresponding unprojected     *)
(* record, and undefined when that record lacks a (the key is kept, no     *)
(* default is put in its place).  The records stand in the order of the    *)
(* sorted unprojected result: projection comes after sort.                 *)
(***************************************************************************)
ProjectionKeepsKey ==
  (IsProjection(call) /\ ~failed) =>
    LET a == call.options.projection[1]
        full == Unprojected(call)
    IN  /\ Len(result) = Len(full)
        /\ \A i \in 1..Len(result) :
             /\ result[i].ref = full[i].ref
             /\ DOMAIN result[i].data = {a}
             /\ result[i].data[a] = Get(full[i].data, a)

(* A projection on age, sorted by name, of a record that has an age and   *)
(* one that has none; the sort has put the second row first.               *)
ProjectionWitness ==
  /\ IsProjection(call) /\ ~failed
  /\ call.options.hasSort /\ call.options.projection = <<"age">>
  /\ Len(result) = 2
  /\ result[1].ref = 2
  /\ result[1].data["age"] = Undefined
  /\ result[2].data["age"] = Num(1)

(***************************************************************************)
(* C10  Numeric comparators.  A find of {k: {$lt: n}} returns exactly the  *)
(* live records whose k is a number below n, a find of {k: {$gt: n}} those *)
(* whose k is a number above n: a record whose k equals n, or is no        *)
(* number, is in neither, and the clause raises no error.                  *)
(***************************************************************************)
IsComparison(c) ==
  /\ c.op = "find" /\ c.options = NoOptions /\ c.query.kind = "fields"
  /\ Cardinality(DOMAIN c.query.fields) = 1
  /\ \A k \in DOMAIN c.query.fields :
       DOMAIN c.query.fields[k] \in {{"$lt"}, {"$gt"}}

NumericComparators ==
  IsComparison(call) =>
    LET k == CHOOSE k \in DOMAIN call.query.fields : TRUE
        queryObject == call.query.fields[k]
        Value(i) == Get(JSONparse(file[i].json), k)
    IN  /\ failed <=> Len(file) = 0
        /\ Refs(result) =
             {i \in 1..Len(file) :
                /\ file[i].marker = "E"
                /\ Value(i).t = "number"
                /\ IF "$lt" \in DOMAIN queryObject
                   THEN Value(i).v < queryObject["$lt"].v
                   ELSE Value(i).v > queryObject["$gt"].v}

(* {age: {$gt: 1}} on a file whose live rows hold age 1 and age 2. *)
NumericWitness ==
  /\ IsComparison(call) /\ ~failed
  /\ call.query = AgeGt(1)
  /\ Len(file) = 2
  /\ file[1] = Line("E", JSONstringify([name |-> Str(<<"a">>), age |-> Num(1)]))
  /\ file[2] = Line("E", JSONstringify([name |-> Str(<<"a">>), age |-> Num(2)]))
  /\ Refs(result) = {2}

(***************************************************************************)
(* C11  Text match.  A find of {$text: t} returns exactly the live records *)
(* that hold, in a configured full-text field, a string one of whose       *)
(* white-space separated words equals t, case ignored.  A part of a word   *)
(* does not match, and a field outside the configured list never does.     *)
(***************************************************************************)
(* t is a word of s: a stretch of s without white space, bounded by white  *)
(* space or by the ends of s.  The empty t is a word of s when s is empty  *)
(* or starts or ends with white space.                                     *)
IsWord(s, t) ==
  IF Len(t) = 0
  THEN Len(s) = 0 \/ s[1] = " " \/ s[Len(s)] = " "
  ELSE \E from \in 1..Len(s) :
         LET to == from + Len(t) - 1
         IN  /\ to <= Len(s)
             /\ \A k \in 1..Len(t) :
                  s[from + k - 1] # " " /\ Lower[s[from + k - 1]] = Lower[t[k]]
             /\ from = 1 \/ s[from - 1] = " "
             /\ to = Len(s) \/ s[to + 1] = " "

ConfiguredFields == {"name"}

TextMatch ==
  (call.op = "find" /\ call.query.kind = "$text" /\ ~failed) =>
    /\ Refs(result) =
         {i \in 1..Len(file) :
            /\ file[i].marker = "E"
            /\ \E k \in ConfiguredFields \cap DOMAIN file[i].json :
                 LET value == JSONparse(file[i].json)[k]
                 IN  value.t = "string" /\ IsWord(value.v, call.query.text)}
    /\ Cardinality(Refs(result)) = Len(result)

(* {$text: "b"} on a file whose first row holds "b" inside the word "ab"   *)
(* and as its bio, and whose second row holds the word "B".                *)
TextMatchWitness ==
  /\ call.op = "find" /\ ~failed
  /\ call.query = TextQuery(<<"b">>)
  /\ Len(file) = 2
  /\ file[1] = Line("E", JSONstringify([name |-> Str(<<"a", "b">>),
                                        bio |-> Str(<<"b">>)]))
  /\ file[2] = Line("E", JSONstringify([name |-> Str(<<"a", " ", "B">>)]))
  /\ Refs(result) = {2}

(***************************************************************************)
(* C12  Malformed log.  A find or a delete on a file one of whose lines    *)
(* has no valid marker (E or D) or a payload that is not JSON fails, and   *)
(* leaves the file as it was: the line is taken neither for a live nor for *)
(* a dead row.                                                             *)
(***************************************************************************)
Malformed(contents) ==
  \E i \in 1..Len(contents) :
    contents[i].marker \notin {"E", "D"} \/ ~parses(contents[i].json)

MalformedLogAborts ==
  [][(call'.op \in {"find", "delete"} /\ Malformed(file)) =>
       failed' /\ file' = file]_vars

(***************************************************************************)
(* C13  Crash-safe rewrite.  When the rewrite of a delete fails or is      *)
(* interrupted part-way, the file still holds the complete contents it had *)
(* before the rewrite began: it is neither empty nor a prefix of the rows. *)
(***************************************************************************)
CrashSafeRewrite ==
  [][call'.op = "interrupted" => file' = file]_vars

(***************************************************************************)
(* C14  Multi-key sort priority chain.  In a sorted result, the order of   *)
(* any two records that carry a string or a number under each sort key is  *)
(* decided by the first key on which they differ, in that key's direction: *)
(* records equal on an earlier key are ordered by the next one.            *)
(***************************************************************************)
ThreeWay(aValue, bValue) ==
  IF aValue.t = "string" THEN localeCompare(aValue.v, bValue.v)
  ELSE IF NumLess(aValue, bValue) THEN -1
  ELSE IF NumLess(bValue, aValue) THEN 1
  ELSE 0

RECURSIVE ChainFrom(_, _, _, _)
ChainFrom(a, b, sort, i) ==
  IF i > Len(sort) THEN 0
  ELSE LET c == ThreeWay(Get(a.data, sort[i][1]), Get(b.data, sort[i][1]))
                  * sort[i][2]
       IN  IF c # 0 THEN c ELSE ChainFrom(a, b, sort, i + 1)

Comparable(a, b, sort) ==
  \A k \in 1..Len(sort) :
    /\ Get(a.data, sort[k][1]).t \in {"string", "number"}
    /\ Get(a.data, sort[k][1]).t = Get(b.data, sort[k][1]).t

SortPriorityChain ==
  (/\ call.op = "find" /\ ~failed
   /\ call.options.hasSort /\ ~call.options.hasProjection) =>
    \A i, j \in 1..Len(result) :
      (i < j /\ Comparable(result[i], result[j], call.options.sort)) =>
        ChainFrom(result[i], result[j], call.options.sort, 1) <= 0

(***************************************************************************)
(* C15  $and result order.  The result of find({$and: [q1, ..., qn]}) is   *)
(* the result of one sub-query with only the elements kept that every      *)
(* other sub-query's result holds too.  As stated, that sub-query is the   *)
(* first one (AndOrderFirst); in the code it is the last one, whose order  *)
(* the result has (AndOrderLast).                                          *)
(***************************************************************************)
IsAnd(c) ==
  c.op = "find" /\ c.query.kind = "$and" /\ Len(c.query.subs) > 0
    /\ c.options = NoOptions

SubResults ==
  [i \in 1..Len(call.query.subs) |->
     _find(existing(_load(file).rows), call.query.subs[i])]

KeptFrom(base, lists) ==
  SelectSeq(base, LAMBDA e : \A k \in 1..Len(lists) : has(lists[k], e))

AndOrderFirst ==
  (IsAnd(call) /\ ~failed) => result = KeptFrom(SubResults[1], SubResults)

AndOrderLast ==
  (IsAnd(call) /\ ~failed) =>
    result = KeptFrom(SubResults[Len(SubResults)], SubResults)

AndOrderWitness ==
  /\ IsAnd(call) /\ ~failed
  /\ call.query = AndQuery(<<EitherAge, MatchAll>>)
  /\ Len(result) = 2
  /\ result[1].ref < result[2].ref
  /\ SubResults[1][1].ref > SubResults[1][2].ref

(***************************************************************************)
(* C16  Empty combinators.  On every file, find({$and: []}) and            *)
(* find({$or: []}) return the empty result without error, and a delete by  *)
(* either query marks no row: it leaves the file as it was.                *)
(***************************************************************************)
EmptyCombinators ==
  [][(call'.op \in {"find", "delete"} /\ call'.query \in EmptyQueries) =>
       ~failed' /\ result' = <<>> /\ file' = file]_vars

(***************************************************************************)
(* C17  Tombstones under interleaving.  As stated: no step of an           *)
(* execution with overlapping delete calls writes a row marked D back      *)
(* with E, whether the D was in the file just before the write or when the *)
(* writing call emptied the file (TombstonesPermanent).  In the code a row *)
(* marked D is written back with E only by the rewrite of a delete call    *)
(* that another delete call's rewrite overlapped, between its load and its *)
(* own write; every other step keeps each D (TombstonesUnlessOverlapped).  *)
(***************************************************************************)
Revived(i) ==
  /\ i <= Len(file') /\ file[i].marker = "D" /\ file'[i].marker = "E"

Completes(c) == pending[c].opened /\ ~pending'[c].active

(* The write of call c puts an E where the file held a D, just before the  *)
(* write or when c emptied it.                                             *)
RevivedBy(c) ==
  \E i \in 1..Len(pending[c].data) :
    /\ pending[c].data[i].marker = "E"
    /\ \/ i <= Len(file) /\ file[i].marker = "D"
       \/ i <= Len(pending[c].before) /\ pending[c].before[i] = "D"

TombstonesPermanent ==
  [][/\ \A i \in 1..Len(file) : ~Revived(i)
     /\ \A c \in 1..MaxCalls : Completes(c) => ~RevivedBy(c)]_vars

TombstonesUnlessOverlapped ==
  [][/\ \A i \in 1..Len(file) :
          Revived(i) =>
            \E c \in 1..MaxCalls : Completes(c) /\ pending[c].overlapped
     /\ \A c \in 1..MaxCalls :
          (Completes(c) /\ ~pending[c].overlapped) => ~RevivedBy(c)]_vars

TombstonesWitness ==
  /\ call.op = "delete" /\ ~failed
  /\ Len(file) = 2 /\ file[1].marker = "D" /\ file[2].marker = "E"
  /\ \E c \in 1..MaxCalls :
       /\ pending[c].active /\ pending[c].overlapped
       /\ Len(pending[c].data) = 2
       /\ pending[c].data[1].marker = "E" /\ pending[c].data[2].marker = "D"

(***************************************************************************)
(* C18  Empty log.  On a file with no rows, every find returns the empty   *)
(* sequence without error and every delete completes without error and     *)
(* leaves the file empty.                                                  *)
(***************************************************************************)
EmptyLog ==
  [][(Len(file) = 0 /\ call'.op \in {"find", "delete"}) =>
       ~failed' /\ result' = <<>> /\ file' = <<>>]_vars

(***************************************************************************)
(* C19  delete is idempotent.  On a file with rows, a delete that directly *)
(* follows a delete by the same query leaves the file as the first one     *)
(* left it, and a delete whose query no live record satisfies writes the   *)
(* file back with every marker and payload unchanged.                      *)
(***************************************************************************)
NoLiveMatch(contents, query) ==
  \A i \in 1..Len(contents) :
    contents[i].marker = "E" =>
      ~Satisfies(JSONparse(contents[i].json), query)

DeleteIdempotent ==
  [][(call'.op = "delete" /\ ~failed') =>
       /\ (call.op = "delete" /\ ~failed /\ call'.query = call.query) =>
            file' = file
       /\ NoLiveMatch(file, call'.query) => file' = file]_vars

(* A delete has killed a row, beside an older dead row: the same delete    *)
(* again finds no live match.                                              *)
DeleteIdempotentWitness ==
  /\ call.op = "delete" /\ ~failed
  /\ Len(file) = 2
  /\ file[1].marker = "D" /\ file[2].marker = "D"
  /\ ~Satisfies(JSONparse(file[1].json), call.query)
  /\ Satisfies(JSONparse(file[2].json), call.query)
  /\ NoLiveMatch(file, call.query)

====
